---- MODULE Spec2Model ----
(***************************************************************************)
(* Model of the MANGA-API repository: the relational store (database.py),  *)
(* the HTTP handlers and the background download task (api.py), the        *)
(* Database manager used by MangaDownloader (manga_downloader.py) and the  *)
(* concurrent chapter-to-PDF download of ChapterImagesScraper (scraper.py).*)
(***************************************************************************)
EXTENDS Integers, Sequences, FiniteSets, TLC

\* ------------------------------------------------------------------ bounds
\* most <img> nodes on a chapter page that is saved to the store
MaxImages == 2
\* most rows the chapter_images table holds: a save that would pass it is not taken
MaxRows == 2
\* most <img> nodes on the chapter page download_images_as_pdf works on
MaxPdfImages == 2
\* most <img> nodes in the document ChapterImagesScraper.images parses
MaxNodes == 3
\* most save operations that are started
MaxSavers == 2
\* longest URL get_extension is called with, in characters
MaxUrlLen == 5
\* most <li> chapter nodes on a manga page
MaxChapterNodes == 3
\* largest result count the site reports on its first page
MaxResults == 60

\* ------------------------------------------------------------- vocabulary
\* Python's None
None == "None"
\* the empty byte string b""
EmptyBytes == ""

\* Python truthiness of an Optional[bytes] / Optional[str] value
Truthy(x) == x /= None /\ x /= EmptyBytes

\* the manga URLs and chapter URLs the clients use; a URL is its sequence of
\* path segments, so that url.split('/')[-1] is its last element
MangaUrls == {<<"manga", "m1">>}
ChapterUrls == {<<"manga", "m1", "chapter", "c1">>, <<"manga", "m1", "chapter", "c2">>}

\* the src attribute of the p-th matched <img> node of a chapter page
Src(curl, p) == <<curl[4], p>>

\* the chapter pages the site can serve for a chapter URL: up to max matched nodes
SitePages(curl, max) == {[p \in 1..n |-> Src(curl, p)] : n \in 0..max}

\* outcomes of get_html(chapter url): an exception, or the page
PageFetches(curl, max) ==
    {[raises |-> TRUE, page |-> <<>>]}
        \cup {[raises |-> FALSE, page |-> p] : p \in SitePages(curl, max)}

\* outcomes of requests.get(image url) followed by raise_for_status():
\* an exception, or a body with an optional content-type header
ImageFetches ==
    { [raises |-> TRUE,  content |-> None,       header |-> None],
      [raises |-> FALSE, content |-> "b1",       header |-> "image/png"],
      [raises |-> FALSE, content |-> "b2",       header |-> None],
      [raises |-> FALSE, content |-> EmptyBytes, header |-> "image/png"] }

\* the (bytes, MIME type) pairs a caller hands to set_image_from_bytes
ImagePayloads == {<<"b1", "image/png">>, <<"b2", "image/jpeg">>}

\* the titles the site can show for a manga or a chapter; SiteTitle is the one
\* it shows as long as the page does not change
Titles == {"t1", "t2"}
SiteTitle == "t1"

VARIABLES
    mangas,     \* table mangas: row id = index
    chapters,   \* table chapters: row id = index
    images,     \* table chapter_images: row id = index
    tasks,      \* BackgroundTasks: chapter ids whose download is scheduled
    resp,       \* the operation that ran last and what it returned
    pc,         \* where the running download_images_as_pdf call stands
    futures,    \* state of the future submitted for each image, in submission order
    yielded,    \* the futures as_completed has handed to the loop
    tmp_files,  \* the list tmp_files: paths in the order they were appended
    disk,       \* the temporary files that exist on disk
    out_file,   \* the file at out_path
    exc,        \* TRUE when an exception is propagating out of the call
    http,       \* the get_content call in flight on the shared session
    scraper,    \* a ChapterImagesScraper object: its cached images property
    savers,     \* the save operations that were started: where each stands
    catalog,    \* tables manga, genre and chapter of db_models.py: row id = index
    call        \* the last call of a function of tools.py or of a scraper: arguments and result

storevars == <<mangas, chapters, images, tasks, resp>>
pdfvars == <<pc, futures, yielded, tmp_files, disk, out_file, exc>>
\* the state of the calls and tables that are modelled on their own
localvars == <<http, scraper, savers, catalog, call>>
vars == <<mangas, chapters, images, tasks, resp, pc, futures, yielded, tmp_files, disk, out_file, exc, http, scraper, savers, catalog, call>>

\* ------------------------------------------------------------ the store
\* Manga(...) as the API handler constructs it
NewManga(url, title, poster, mime) ==
    [url |-> url, title |-> title, poster_image |-> poster, poster_mime_type |-> mime]

\* Chapter(...): pdf_path NULL, is_downloaded default 0
NewChapter(manga_id, url, title, order_no) ==
    [manga_id |-> manga_id, url |-> url, title |-> title, order_no |-> order_no,
     pdf_path |-> None, is_downloaded |-> 0]

\* ChapterImage(...): image_data and mime_type NULL, is_downloaded default 0
NewChapterImage(chapter_id, url, order_no) ==
    [chapter_id |-> chapter_id, url |-> url, image_data |-> None,
     mime_type |-> None, order_no |-> order_no, is_downloaded |-> 0]

\* session.query(T).filter(cond).first(): hits are the ids of the matching rows;
\* the id of the first one, 0 (no row) if there is none
First(hits) ==
    IF hits = {} THEN 0 ELSE CHOOSE i \in hits : \A j \in hits : i <= j

\* ids of the rows of chapter.images, in the order the relationship loads them
ImageIds(imgs, cid) ==
    LET F[i \in 0..Len(imgs)] ==
            IF i = 0 THEN <<>>
            ELSE IF imgs[i].chapter_id = cid THEN Append(F[i-1], i) ELSE F[i-1]
    IN  F[Len(imgs)]

\* the same rows as a set
ImageIdSet(imgs, cid) == {i \in 1..Len(imgs) : imgs[i].chapter_id = cid}

\* the rows of the chapter that a download pass fetches
PendingIds(imgs, cid) == {i \in ImageIdSet(imgs, cid) : imgs[i].is_downloaded = 0}

\* len(manga.chapters)
ChapterCount(chs, mid) == Cardinality({i \in 1..Len(chs) : chs[i].manga_id = mid})

\* set_image_from_bytes that keeps the bytes a row already holds
set_image_from_bytes_keep(row, image_bytes, mime_type) ==
    [row EXCEPT !.image_data = IF Truthy(@) THEN @ ELSE image_bytes,
                !.mime_type = IF Truthy(@) THEN @ ELSE mime_type,
                !.is_downloaded = 1]

\* ChapterImage.set_image_from_bytes
set_image_from_bytes(row, image_bytes, mime_type) ==
    [row EXCEPT !.image_data = image_bytes, !.mime_type = mime_type, !.is_downloaded = 1]

\* a download_image that loses every response
download_image_lost(fetch) == <<None, None>>

\* api.download_image: (content, content type) or (None, None) on any exception
download_image(fetch) ==
    IF fetch.raises THEN <<None, None>>
    ELSE <<fetch.content, IF fetch.header = None THEN "image/jpeg" ELSE fetch.header>>

\* ChapterImagesScraper.images: order_no counts the matched nodes from 0
ScraperImages(page) == [i \in 1..Len(page) |-> [order_no |-> i - 1, url |-> page[i]]]

\* ------------------------------------------------- api.py: background task
\* a loop body that gives up after the first failed fetch
DownloadStep_break(acc, i, fetch) ==
    IF acc.imgs[i].is_downloaded = 0 /\ acc.failed = {}
    THEN LET got == download_image(fetch[i])
         IN  [imgs |-> IF Truthy(got[1]) /\ Truthy(got[2])
                       THEN [acc.imgs EXCEPT ![i] = set_image_from_bytes(@, got[1], got[2])]
                       ELSE acc.imgs,
              attempted |-> acc.attempted \cup {i},
              failed |-> IF fetch[i].raises THEN acc.failed \cup {i} ELSE acc.failed]
    ELSE acc

\* one pass of the loop body of download_chapter_images over the image row i:
\* acc.imgs is the session's view of the table, acc.attempted the rows for
\* which download_image was called, acc.failed those whose request raised
DownloadStep(acc, i, fetch) ==
    IF acc.imgs[i].is_downloaded = 0
    THEN LET got == download_image(fetch[i])
         IN  [imgs |-> IF Truthy(got[1]) /\ Truthy(got[2])
                       THEN [acc.imgs EXCEPT ![i] = set_image_from_bytes(@, got[1], got[2])]
                       ELSE acc.imgs,
              attempted |-> acc.attempted \cup {i},
              failed |-> IF fetch[i].raises THEN acc.failed \cup {i} ELSE acc.failed]
    ELSE acc

\* for image in chapter.images: ...
RECURSIVE DownloadLoop(_, _, _)
DownloadLoop(acc, ids, fetch) ==
    IF ids = <<>> THEN acc
    ELSE DownloadLoop(DownloadStep(acc, Head(ids), fetch), Tail(ids), fetch)

\* download_chapter_images(chapter_id) with the given outcome of every fetch;
\* the session commits once, after the loop
download_chapter_images(chapter_id, fetch) ==
    IF chapter_id \notin 1..Len(chapters)
    THEN /\ resp' = [op |-> "download_chapter_images", chapter_id |-> chapter_id,
                     found |-> FALSE, attempted |-> {}, failed |-> {}]
         /\ UNCHANGED images
    ELSE LET done == DownloadLoop([imgs |-> images, attempted |-> {}, failed |-> {}],
                                  ImageIds(images, chapter_id), fetch)
         IN  /\ images' = done.imgs
             /\ resp' = [op |-> "download_chapter_images", chapter_id |-> chapter_id,
                         found |-> TRUE, attempted |-> done.attempted,
                         failed |-> done.failed]

\* the background task scheduled by POST /chapter/save runs
RunBackgroundTask(chapter_id) ==
    /\ chapter_id \in tasks
    /\ \E fetch \in [PendingIds(images, chapter_id) -> ImageFetches] :
           download_chapter_images(chapter_id, fetch)
    /\ tasks' = tasks \ {chapter_id}
    /\ UNCHANGED <<mangas, chapters, pdfvars, localvars>>

\* the fetches that succeed: the request does not raise and the body holds bytes
GoodFetches == {f \in ImageFetches : ~f.raises /\ Truthy(f.content)}

\* the background task runs while every image URL answers with its image
RunBackgroundTaskOk(chapter_id) ==
    /\ chapter_id \in tasks
    /\ \E fetch \in [PendingIds(images, chapter_id) -> GoodFetches] :
           download_chapter_images(chapter_id, fetch)
    /\ tasks' = tasks \ {chapter_id}
    /\ UNCHANGED <<mangas, chapters, pdfvars, localvars>>

\* download_chapter_images is called for a chapter id, by any caller at any time
Retrigger(chapter_id) ==
    /\ \E fetch \in [PendingIds(images, chapter_id) -> ImageFetches] :
           download_chapter_images(chapter_id, fetch)
    /\ UNCHANGED <<mangas, chapters, tasks, pdfvars, localvars>>

\* --------------------------------------------- database.py: Chapter methods
\* sorted(..., key=order_no) is stable: i goes behind every id whose order_no
\* is not greater
RECURSIVE InsertByOrderNo(_, _, _)
InsertByOrderNo(imgs, sorted, i) ==
    IF sorted = <<>> THEN <<i>>
    ELSE IF imgs[Head(sorted)].order_no <= imgs[i].order_no
         THEN <<Head(sorted)>> \o InsertByOrderNo(imgs, Tail(sorted), i)
         ELSE <<i>> \o sorted

RECURSIVE SortByOrderNo(_, _)
SortByOrderNo(imgs, ids) ==
    IF ids = <<>> THEN <<>>
    ELSE InsertByOrderNo(imgs, SortByOrderNo(imgs, SubSeq(ids, 1, Len(ids) - 1)), ids[Len(ids)])

\* get_ordered_images that returns the rows as loaded, unsorted
get_ordered_images_unsorted(imgs, cid) == ImageIds(imgs, cid)

\* Chapter.get_ordered_images: the ids of the chapter's rows sorted by order_no
get_ordered_images(imgs, cid) == SortByOrderNo(imgs, ImageIds(imgs, cid))

\* bytes that are stored like image bytes but that Image.open cannot identify
\* ("html", an error page served with status 200) or that img.save cannot
\* write as JPEG ("rgba", a PNG with an alpha channel)
OpaquePayloads == {<<"html", "image/jpeg">>, <<"rgba", "image/png">>}

\* Image.open(...) and img.save(format='JPEG') both go through
Convertible(image_data) == image_data \notin {p[1] : p \in OpaquePayloads}

\* the outcome of a call that raised
Raised == "raised"

\* Image.open(...).save(format='JPEG'): the re-encoded image
Jpeg(image_data) == <<"JPEG", image_data>>

\* img2pdf.convert(image_list): a header and one page per image
Img2Pdf(image_list) == << <<"%PDF">> >> \o image_list

\* the image_list generate_pdf builds: rows without image_data are skipped
RECURSIVE ImageList(_, _)
ImageList(imgs, ids) ==
    IF ids = <<>> THEN <<>>
    ELSE IF Truthy(imgs[Head(ids)].image_data)
         THEN <<Jpeg(imgs[Head(ids)].image_data)>> \o ImageList(imgs, Tail(ids))
         ELSE ImageList(imgs, Tail(ids))

\* Chapter.generate_pdf: b"" (the empty sequence) when image_list is empty;
\* the loop raises at a row whose stored bytes Pillow cannot convert
generate_pdf(imgs, cid) ==
    LET image_list == ImageList(imgs, get_ordered_images(imgs, cid))
    IN  IF \E i \in ImageIdSet(imgs, cid) :
              Truthy(imgs[i].image_data) /\ ~Convertible(imgs[i].image_data)
        THEN Raised
        ELSE IF image_list /= <<>> THEN Img2Pdf(image_list) ELSE <<>>

\* ------------------------------------------------------ api.py: handlers
\* the percentage without the total_images > 0 guard
Progress_unguarded(downloaded_images, total_images) ==
    <<downloaded_images * 100, total_images>>

\* downloaded_images / total_images * 100 as the fraction <<numerator, denominator>>
Progress(downloaded_images, total_images) ==
    IF total_images > 0 THEN <<downloaded_images * 100, total_images>> ELSE <<0, 1>>

\* sum(1 for image in chapter.images if image.is_downloaded)
RECURSIVE CountDownloaded(_, _)
CountDownloaded(imgs, ids) ==
    IF ids = <<>> THEN 0
    ELSE (IF imgs[Head(ids)].is_downloaded /= 0 THEN 1 ELSE 0) + CountDownloaded(imgs, Tail(ids))

\* the dict get_chapter_status returns for a stored chapter
ChapterStatus(imgs, cid) ==
    LET total_images == Len(ImageIds(imgs, cid))
        downloaded_images == CountDownloaded(imgs, ImageIds(imgs, cid))
    IN  [total_images |-> total_images,
         downloaded_images |-> downloaded_images,
         is_complete |-> (total_images = downloaded_images),
         progress |-> Progress(downloaded_images, total_images)]

\* GET /chapter/{chapter_id}/status
GetChapterStatus(chapter_id) ==
    /\ resp' = IF chapter_id \notin 1..Len(chapters)
               THEN [op |-> "get_chapter_status", chapter_id |-> chapter_id, status |-> 404]
               ELSE [op |-> "get_chapter_status", chapter_id |-> chapter_id, status |-> 200,
                     body |-> ChapterStatus(images, chapter_id)]
    /\ UNCHANGED <<mangas, chapters, images, tasks, pdfvars, localvars>>

\* GET /chapter/{chapter_id}/pdf
GetChapterPdf(chapter_id) ==
    /\ resp' = IF chapter_id \notin 1..Len(chapters)
               THEN [op |-> "get_chapter_pdf", chapter_id |-> chapter_id, status |-> 404]
               ELSE IF generate_pdf(images, chapter_id) = Raised
               THEN [op |-> "get_chapter_pdf", chapter_id |-> chapter_id, status |-> 500]
               ELSE [op |-> "get_chapter_pdf", chapter_id |-> chapter_id, status |-> 200,
                     content |-> generate_pdf(images, chapter_id)]
    /\ UNCHANGED <<mangas, chapters, images, tasks, pdfvars, localvars>>

\* the chapters of the manga whose images are all flagged downloaded
DownloadedChapters(manga_id) ==
    Cardinality({c \in 1..Len(chapters) :
        /\ chapters[c].manga_id = manga_id
        /\ \A i \in 1..Len(images) :
              images[i].chapter_id = c => images[i].is_downloaded /= 0})

\* GET /manga/{manga_id}: the HTTPException(404) for a missing row is raised
\* inside the try block, and HTTPException is an Exception: the except clause
\* catches it and raises HTTPException(500) with str(e) in the detail
GetManga(manga_id) ==
    /\ resp' = IF manga_id \notin 1..Len(mangas)
               THEN [op |-> "get_manga", manga_id |-> manga_id, status |-> 500,
                     detail |-> <<"Error retrieving manga: ", "404: Manga not found">>]
               ELSE [op |-> "get_manga", manga_id |-> manga_id, status |-> 200,
                     body |-> [id |-> manga_id,
                               title |-> mangas[manga_id].title,
                               url |-> mangas[manga_id].url,
                               has_poster |-> Truthy(mangas[manga_id].poster_image),
                               total_chapters |-> ChapterCount(chapters, manga_id),
                               downloaded_chapters |-> DownloadedChapters(manga_id)]]
    /\ UNCHANGED <<mangas, chapters, images, tasks, pdfvars, localvars>>

\* the fields the response_model ChapterResponse requires
ChapterResponseFields == {"message", "chapter_id", "total_images"}

\* FastAPI validates the returned dict against response_model: 500 when a
\* required field is missing
ResponseStatus(body, required) == IF required \subseteq DOMAIN body THEN 200 ELSE 500

\* POST /manga/save while the site shows title for the manga. A stored URL is
\* answered without scraping. A URL that is not stored reaches
\* details.poster_url, an attribute models.MangaDetails does not have (its
\* field is poster): the handler raises before session.add, whatever the
\* scraper returned
SaveManga(url, title) ==
    LET existing_manga == First({i \in 1..Len(mangas) : mangas[i].url = url})
    IN  /\ resp' = IF existing_manga /= 0
                   THEN [op |-> "save_manga", url |-> url, title |-> title, status |-> 200,
                         body |-> [message |-> "Manga already exists", manga_id |-> existing_manga]]
                   ELSE [op |-> "save_manga", url |-> url, title |-> title, status |-> 500]
        /\ UNCHANGED <<mangas, chapters, images, tasks, pdfvars, localvars>>

\* Database.save_manga(manga_data): insert the manga row for the URL unless it
\* is stored, then assign the fields of manga_data to the row
DbSaveManga(url, title) ==
    LET manga == First({i \in 1..Len(mangas) : mangas[i].url = url})
    IN  /\ mangas' = IF manga = 0 THEN Append(mangas, NewManga(url, title, None, None))
                      ELSE [mangas EXCEPT ![manga].title = title]
        /\ resp' = [op |-> "Database.save_manga", url |-> url, title |-> title,
                    manga_id |-> IF manga = 0 THEN Len(mangas) + 1 ELSE manga]
        /\ UNCHANGED <<chapters, images, tasks, pdfvars, localvars>>

\* Database.save_chapter(manga_url, chapter_data): raises for a manga URL that
\* is not stored; inserts the chapter row for the URL or assigns title and
\* order_no to the stored one
DbSaveChapter(manga_url, url, title, order_no) ==
    LET manga == First({i \in 1..Len(mangas) : mangas[i].url = manga_url})
        chapter == First({i \in 1..Len(chapters) : chapters[i].url = url})
    IN  IF manga = 0
        THEN /\ resp' = [op |-> "Database.save_chapter", result |-> FALSE]
             /\ UNCHANGED <<mangas, chapters, images, tasks, pdfvars, localvars>>
        ELSE /\ chapters' = IF chapter = 0
                            THEN Append(chapters, NewChapter(manga, url, title, order_no))
                            ELSE [chapters EXCEPT ![chapter].title = title,
                                                  ![chapter].order_no = order_no]
             /\ resp' = [op |-> "Database.save_chapter", result |-> TRUE, url |-> url,
                         title |-> title, order_no |-> order_no]
             /\ UNCHANGED <<mangas, images, tasks, pdfvars, localvars>>

\* image rows that are created with the bytes of the page already in them
ApiImageRows_eager(chapter_id, scraped) ==
    [idx \in 1..Len(scraped) |->
        set_image_from_bytes(NewChapterImage(chapter_id, scraped[idx].url, idx), "b1", "image/png")]

\* for idx, img in enumerate(images, 1): ChapterImage(chapter_id, img.url, idx)
ApiImageRows(chapter_id, scraped) ==
    [idx \in 1..Len(scraped) |-> NewChapterImage(chapter_id, scraped[idx].url, idx)]

\* POST /chapter/save; got is the outcome of fetching the chapter page, which
\* happens only for a stored manga and a chapter URL that is not stored
SaveChapter(manga_id, url) ==
    LET existing_chapter == First({i \in 1..Len(chapters) : chapters[i].url = url})
        chapter_id == Len(chapters) + 1
        exists_body == [message |-> "Chapter already exists", chapter_id |-> existing_chapter]
    IN  IF manga_id \notin 1..Len(mangas)
        THEN /\ resp' = [op |-> "save_chapter", status |-> 404]
             /\ UNCHANGED <<mangas, chapters, images, tasks, pdfvars, localvars>>
        ELSE IF existing_chapter /= 0
        THEN /\ resp' = [op |-> "save_chapter",
                         status |-> ResponseStatus(exists_body, ChapterResponseFields),
                         body |-> exists_body]
             /\ UNCHANGED <<mangas, chapters, images, tasks, pdfvars, localvars>>
        ELSE \E got \in PageFetches(url, MaxImages) :
                 IF got.raises
                 THEN /\ resp' = [op |-> "save_chapter", status |-> 500]
                      /\ UNCHANGED <<mangas, chapters, images, tasks, pdfvars, localvars>>
                 ELSE /\ Len(images) + Len(got.page) <= MaxRows
                      /\ chapters' = Append(chapters,
                             NewChapter(manga_id, url, url[Len(url)], ChapterCount(chapters, manga_id) + 1))
                      /\ images' = images \o ApiImageRows(chapter_id, ScraperImages(got.page))
                      /\ tasks' = tasks \cup {chapter_id}
                      /\ resp' = [op |-> "save_chapter", status |-> 200,
                                  body |-> [message |-> "Chapter saved successfully, images downloading in background",
                                            chapter_id |-> chapter_id,
                                            total_images |-> Len(got.page)]]
                      /\ UNCHANGED <<mangas, pdfvars, localvars>>

\* ----------------------------------------------- database.py: Database
\* an upsert that replaces the stored row by a fresh one
UpsertImage_reset(imgs, chapter_id, img_data) ==
    LET image == First({i \in 1..Len(imgs) : /\ imgs[i].chapter_id = chapter_id
                                                /\ imgs[i].order_no = img_data.order_no})
    IN  IF image = 0
        THEN Append(imgs, NewChapterImage(chapter_id, img_data.url, img_data.order_no))
        ELSE [imgs EXCEPT ![image] = NewChapterImage(chapter_id, img_data.url, img_data.order_no)]

\* an upsert that adds a row without looking for the stored one
UpsertImage_append(imgs, chapter_id, img_data) ==
    Append(imgs, NewChapterImage(chapter_id, img_data.url, img_data.order_no))

\* the body of the loop of Database.save_chapter_images: a row of the chapter
\* with the order_no gets the new url, otherwise a row is added
UpsertImage(imgs, chapter_id, img_data) ==
    LET image == First({i \in 1..Len(imgs) : /\ imgs[i].chapter_id = chapter_id
                                                /\ imgs[i].order_no = img_data.order_no})
    IN  IF image = 0
        THEN Append(imgs, NewChapterImage(chapter_id, img_data.url, img_data.order_no))
        ELSE [imgs EXCEPT ![image].url = img_data.url]

\* for img_data in images_data: ...
RECURSIVE save_chapter_images(_, _, _)
save_chapter_images(imgs, chapter_id, images_data) ==
    IF images_data = <<>> THEN imgs
    ELSE save_chapter_images(UpsertImage(imgs, chapter_id, Head(images_data)),
                             chapter_id, Tail(images_data))

\* MangaDownloader.download_chapter(chapter_url, download_images=False): scrape
\* the page and hand the scraper's images to Database.save_chapter_images,
\* which raises for a chapter URL that is not stored; resp.saved is
\* len(saved_images)
DownloadChapter(chapter_url) ==
    LET chapter == First({i \in 1..Len(chapters) : chapters[i].url = chapter_url})
    IN  IF chapter = 0
        THEN /\ resp' = [op |-> "download_chapter", result |-> FALSE]
             /\ UNCHANGED <<mangas, chapters, images, tasks, pdfvars, localvars>>
        ELSE \E got \in PageFetches(chapter_url, MaxImages) :
                 IF got.raises
                 THEN /\ resp' = [op |-> "download_chapter", result |-> FALSE]
                      /\ UNCHANGED <<mangas, chapters, images, tasks, pdfvars, localvars>>
                 ELSE /\ images' = save_chapter_images(images, chapter, ScraperImages(got.page))
                      /\ Len(images') <= MaxRows
                      /\ resp' = [op |-> "download_chapter", url |-> chapter_url,
                                  result |-> TRUE, saved |-> Len(got.page)]
                      /\ UNCHANGED <<mangas, chapters, tasks, pdfvars, localvars>>

\* Database.update_chapter_download_status(chapter_url, pdf_path)
update_chapter_download_status(chs, chapter, pdf_path) ==
    IF chapter = 0 THEN chs
    ELSE [chs EXCEPT ![chapter].pdf_path = pdf_path, ![chapter].is_downloaded = 1]

\* str(chapter_dir / "chapter.pdf"): chapter_dir is named after
\* Path(chapter_url).name, which stands for the path here
PdfPath(chapter_url) == chapter_url[Len(chapter_url)]

\* a download that records the PDF before it is written
AfterPdf_flag_first(chs, chapter, chapter_url, written) ==
    update_chapter_download_status(chs, chapter, PdfPath(chapter_url))

\* the chapters table after scraper.download_images_as_pdf(pdf_path) and the
\* statement behind it: an exception of the download skips the update
AfterPdf(chs, chapter, chapter_url, written) ==
    IF written THEN update_chapter_download_status(chs, chapter, PdfPath(chapter_url))
    ELSE chs

\* MangaDownloader.download_chapter(chapter_url, download_images=True).
\* download_images_as_pdf raises or writes the PDF; it cannot write one for
\* a page without images. After a written PDF the loop over saved_images
\* reads image.order_no of rows whose session is closed and whose attributes
\* the commit expired: the read raises DetachedInstanceError, so no image is
\* updated and the call returns False; the loop is empty only for no images
DownloadChapterPdf(chapter_url) ==
    LET chapter == First({i \in 1..Len(chapters) : chapters[i].url = chapter_url})
    IN  IF chapter = 0
        THEN /\ resp' = [op |-> "download_chapter", url |-> chapter_url, result |-> FALSE,
                         saved |-> 0, pdf |-> "none"]
             /\ UNCHANGED <<mangas, chapters, images, tasks, pdfvars, localvars>>
        ELSE \E got \in PageFetches(chapter_url, MaxImages) :
                 IF got.raises
                 THEN /\ resp' = [op |-> "download_chapter", url |-> chapter_url,
                                  result |-> FALSE, saved |-> 0, pdf |-> "none"]
                      /\ UNCHANGED <<mangas, chapters, images, tasks, pdfvars, localvars>>
                 ELSE \E written \in (IF got.page = <<>> THEN {FALSE} ELSE BOOLEAN) :
                      /\ images' = save_chapter_images(images, chapter, ScraperImages(got.page))
                      /\ Len(images') <= MaxRows
                      /\ chapters' = AfterPdf(chapters, chapter, chapter_url, written)
                      /\ resp' = [op |-> "download_chapter", url |-> chapter_url,
                                  result |-> FALSE, saved |-> Len(got.page),
                                  pdf |-> IF written THEN "written" ELSE "raised"]
                      /\ UNCHANGED <<mangas, tasks, pdfvars, localvars>>

\* Database.update_image_download_status: local_path is not a column of
\* chapter_images, so only is_downloaded reaches the row
UpdateImageDownloadStatus(chapter_url, order_no) ==
    LET chapter == First({i \in 1..Len(chapters) : chapters[i].url = chapter_url})
        image == IF chapter = 0 THEN 0
                 ELSE First({i \in 1..Len(images) : /\ images[i].chapter_id = chapter
                                                       /\ images[i].order_no = order_no})
    IN  /\ images' = IF image = 0 THEN images ELSE [images EXCEPT ![image].is_downloaded = 1]
        /\ resp' = [op |-> "update_image_download_status"]
        /\ UNCHANGED <<mangas, chapters, tasks, pdfvars, localvars>>

\* a caller stores bytes in an image row: row.set_image_from_bytes(...), commit;
\* resp.held remembers whether the row already held these bytes
SetImageFromBytes(image, payload) ==
    /\ image \in 1..Len(images)
    /\ images' = [images EXCEPT ![image] = set_image_from_bytes(@, payload[1], payload[2])]
    /\ resp' = [op |-> "set_image_from_bytes", image |-> image, payload |-> payload,
                held |-> (/\ images[image].image_data = payload[1]
                          /\ images[image].mime_type = payload[2]
                          /\ images[image].is_downloaded = 1)]
    /\ UNCHANGED <<mangas, chapters, tasks, pdfvars, localvars>>

\* ------------------------------- scraper.py: download_images_as_pdf
\* ThreadPoolExecutor(max_workers=6)
MaxWorkers == 6

\* the temporary file of the i-th submitted transfer (NamedTemporaryFile names are unique)
TmpPath(i) == i

\* the order_no of the image the i-th submitted transfer downloads
OrderNoOf(i) == i - 1

Finished(i) == futures[i] \in {"done", "failed"}

\* download_images_as_pdf is called: self.images is read before the try block,
\* then every url is submitted to the pool
PdfStart(got) ==
    /\ pc = "idle"
    /\ IF got.raises
       THEN /\ pc' = "raised"
            /\ exc' = TRUE
            /\ UNCHANGED futures
       ELSE /\ pc' = "collecting"
            /\ futures' = [i \in 1..Len(ScraperImages(got.page)) |-> "queued"]
            /\ UNCHANGED exc
    /\ UNCHANGED <<yielded, tmp_files, disk, out_file, storevars, localvars>>

\* a pool thread picks up a queued transfer; the pool keeps running queued
\* work while the executor shuts down with wait=True
WorkerStart(i) ==
    /\ pc \in {"collecting", "raising"}
    /\ i \in 1..Len(futures)
    /\ futures[i] = "queued"
    /\ Cardinality({j \in 1..Len(futures) : futures[j] = "running"}) < MaxWorkers
    /\ futures' = [futures EXCEPT ![i] = "running"]
    /\ UNCHANGED <<pc, yielded, tmp_files, disk, out_file, exc, storevars, localvars>>

\* _download_to_temp returns: the response was written to a new temporary file
WorkerDone(i) ==
    /\ i \in 1..Len(futures)
    /\ futures[i] = "running"
    /\ futures' = [futures EXCEPT ![i] = "done"]
    /\ disk' = disk \cup {TmpPath(i)}
    /\ UNCHANGED <<pc, yielded, tmp_files, out_file, exc, storevars, localvars>>

\* _download_to_temp raises: in session.get or raise_for_status, before the
\* temporary file exists, or in iter_content, after it was created
WorkerFail(i, created) ==
    /\ i \in 1..Len(futures)
    /\ futures[i] = "running"
    /\ futures' = [futures EXCEPT ![i] = "failed"]
    /\ disk' = IF created THEN disk \cup {TmpPath(i)} ELSE disk
    /\ UNCHANGED <<pc, yielded, tmp_files, out_file, exc, storevars, localvars>>

\* a loop that logs the failed transfer and goes on
CollectResult_swallow(i) ==
    /\ tmp_files' = IF futures[i] = "done" THEN Append(tmp_files, TmpPath(i)) ELSE tmp_files
    /\ UNCHANGED <<pc, exc>>

\* what the loop over as_completed does with a finished future
CollectResult(i) ==
    IF futures[i] = "done"
    THEN /\ tmp_files' = Append(tmp_files, TmpPath(i))
         /\ UNCHANGED <<pc, exc>>
    ELSE /\ pc' = "raising"
         /\ exc' = TRUE
         /\ UNCHANGED tmp_files

\* as_completed yields a finished future
Collect(i) ==
    /\ pc = "collecting"
    /\ i \in 1..Len(futures)
    /\ i \notin yielded
    /\ Finished(i)
    /\ yielded' = yielded \cup {i}
    /\ CollectResult(i)
    /\ UNCHANGED <<futures, disk, out_file, storevars, localvars>>

\* the loop ends normally and the with block is left: every future is finished
CollectEnd ==
    /\ pc = "collecting"
    /\ yielded = 1..Len(futures)
    /\ pc' = "writing"
    /\ UNCHANGED <<futures, yielded, tmp_files, disk, out_file, exc, storevars, localvars>>

\* the exception leaves the with block: shutdown(wait=True) returns once
\* every submitted transfer has finished
ShutdownWait ==
    /\ pc = "raising"
    /\ \A i \in 1..Len(futures) : Finished(i)
    /\ pc' = "finally"
    /\ UNCHANGED <<futures, yielded, tmp_files, disk, out_file, exc, storevars, localvars>>

\* the pages img2pdf.convert(tmp_files) emits: one per path, in list order
PdfPages(paths) == [j \in 1..Len(paths) |-> OrderNoOf(paths[j])]

\* open(out_path, "wb") and f_out.write(img2pdf.convert(tmp_files)); the file
\* is opened first, so it stays empty when convert raises (it does for an
\* empty list in current img2pdf releases, and for bytes that are no image)
WritePdf(converts) ==
    /\ pc = "writing"
    /\ out_file' = [exists |-> TRUE, pages |-> IF converts THEN PdfPages(tmp_files) ELSE <<>>]
    /\ exc' = ~converts
    /\ pc' = "finally"
    /\ UNCHANGED <<futures, yielded, tmp_files, disk, storevars, localvars>>

\* the finally block unlinks the paths in tmp_files; the call returns or raises
Finally ==
    /\ pc = "finally"
    /\ disk' = disk \ {tmp_files[j] : j \in 1..Len(tmp_files)}
    /\ pc' = IF exc THEN "raised" ELSE "returned"
    /\ UNCHANGED <<futures, yielded, tmp_files, out_file, exc, storevars, localvars>>

\* ------------------------------------------- scraper.py: the shared session
\* get_session(retries=3, ...): Retry(total=retries)
Retries == 3

\* status_forcelist=(500, 502, 504)
StatusForcelist == {500, 502, 504}

\* allowed_methods=frozenset(['GET', 'POST'])
AllowedMethods == {"GET", "POST"}

\* Retry.RETRY_AFTER_STATUS_CODES of urllib3; respect_retry_after_header is
\* left at its default, True
RetryAfterStatusCodes == {413, 429, 503}

\* the methods a request on the session can have
Methods == {"GET", "POST", "DELETE"}

\* what the server can answer to one request: a status, with or without a
\* Retry-After header; status 0 stands for no response at all (the connection
\* dropped or the read timed out after the request was sent)
Replies ==
    [status : {0, 200, 404, 500, 502, 504}, retry_after : {FALSE}]
        \cup [status : {503}, retry_after : BOOLEAN]

\* the body of the response to the n-th request of a call
Body(reply, n) == <<"body", reply.status, n>>

\* Retry.is_retry(method, status_code, has_retry_after) with total retries left
is_retry(method, reply, total) ==
    IF method \notin AllowedMethods THEN FALSE
    ELSE IF reply.status \in StatusForcelist THEN TRUE
    ELSE total > 0 /\ reply.retry_after /\ reply.status \in RetryAfterStatusCodes

\* Retry.increment for a failed connection or read: a read error of a method
\* outside allowed_methods is re-raised at once
is_error_retry(method) == method \in AllowedMethods

\* a raise_for_status that lets every response through
raise_for_status_never(status) == FALSE

\* Response.raise_for_status raises for 4xx and 5xx
raise_for_status(status) == status >= 400

\* session.request(method, url) is called, by get_content with GET
SessionRequest(method) ==
    /\ http.pc \in {"idle", "returned", "raised"}
    /\ http' = [pc |-> "sending", method |-> method, total |-> Retries, log |-> <<>>]
    /\ UNCHANGED <<storevars, pdfvars, scraper, savers, catalog, call>>

\* one request is sent and answered by reply: urlopen retries through
\* Retry.increment, which raises MaxRetryError once total drops below 0; a
\* response that is not retried goes to raise_for_status and resp.content
SessionSend(reply) ==
    /\ http.pc = "sending"
    /\ LET log == Append(http.log, reply)
           retry == IF reply.status = 0 THEN is_error_retry(http.method)
                    ELSE is_retry(http.method, reply, http.total)
       IN  http' =
             IF retry /\ http.total - 1 >= 0
             THEN [http EXCEPT !.total = @ - 1, !.log = log]
             ELSE IF retry \/ reply.status = 0 \/ raise_for_status(reply.status)
             THEN [pc |-> "raised", method |-> http.method, total |-> http.total, log |-> log]
             ELSE [pc |-> "returned", method |-> http.method, total |-> http.total, log |-> log,
                   content |-> Body(reply, Len(log))]
    /\ UNCHANGED <<storevars, pdfvars, scraper, savers, catalog, call>>

\* --------------------------- scraper.py: ChapterImagesScraper.images
\* the <img> nodes a chapter document can hold: attrs is the set of attribute
\* names of the node (a lazily loaded image carries data-src and no src), src
\* the value of its src or data-src attribute as a sequence of characters,
\* class tells whether the node matches img.wp-manga-chapter-img
ImgNodes ==
    {[class |-> FALSE, attrs |-> {"src"}, src |-> <<"u0">>],
     [class |-> TRUE, attrs |-> {"src"}, src |-> <<"u1">>],
     [class |-> TRUE, attrs |-> {"src"}, src |-> <<" ", "u2", " ">>],
     [class |-> TRUE, attrs |-> {"data-src"}, src |-> <<"u3">>]}

\* the documents get_html can return: the <img> nodes in document order
Documents == UNION {[1..n -> ImgNodes] : n \in 0..MaxNodes}

\* tree.css("img.wp-manga-chapter-img"): the matching nodes in document order
RECURSIVE Css(_)
Css(tree) ==
    IF tree = <<>> THEN <<>>
    ELSE (IF Head(tree).class THEN <<Head(tree)>> ELSE <<>>) \o Css(Tail(tree))

\* str.strip(): without the leading and trailing whitespace
RECURSIVE Strip(_)
Strip(str) ==
    IF str = <<>> THEN <<>>
    ELSE IF Head(str) = " " THEN Strip(Tail(str))
    ELSE IF str[Len(str)] = " " THEN Strip(SubSeq(str, 1, Len(str) - 1))
    ELSE str

\* the list comprehension of the images property: node.attrs["src"] raises
\* KeyError for a node without the attribute
ParseImages(tree) ==
    LET nodes == Css(tree)
    IN  IF \E i \in 1..Len(nodes) : "src" \notin nodes[i].attrs
        THEN [raised |-> TRUE, images |-> <<>>]
        ELSE [raised |-> FALSE,
              images |-> [i \in 1..Len(nodes) |-> [order_no |-> i - 1, url |-> Strip(nodes[i].src)]]]

\* a ChapterImagesScraper is constructed for a chapter URL
NewScraper ==
    /\ scraper' = [cached |-> FALSE]
    /\ resp' = [op |-> "ChapterImagesScraper"]
    /\ UNCHANGED <<mangas, chapters, images, tasks, pdfvars, http, savers, catalog, call>>

\* scraper.images is read: cached_property runs the body on the first read
\* that does not raise and returns the stored list afterwards; got is what
\* get_html would return for the page at this moment
ReadImages(got) ==
    /\ IF scraper.cached
       THEN /\ resp' = [op |-> "images", fetched |-> FALSE, raised |-> FALSE,
                        result |-> scraper.images]
            /\ UNCHANGED scraper
       ELSE IF got.raises \/ ParseImages(got.tree).raised
       THEN /\ resp' = [op |-> "images", fetched |-> TRUE, got |-> got, raised |-> TRUE,
                        result |-> <<>>]
            /\ UNCHANGED scraper
       ELSE /\ resp' = [op |-> "images", fetched |-> TRUE, got |-> got, raised |-> FALSE,
                        result |-> ParseImages(got.tree).images]
            /\ scraper' = [cached |-> TRUE, images |-> ParseImages(got.tree).images]
    /\ UNCHANGED <<mangas, chapters, images, tasks, pdfvars, http, savers, catalog, call>>

\* ------------------------------- scraper.py: MangaDetailsScarper.chapters
\* the li.wp-manga-chapter nodes a manga page can hold: with an <a> that has
\* href and text, or without an <a>
ChapterNodes ==
    {[a |-> TRUE, href |-> u, text |-> t] : u \in ChapterUrls, t \in Titles}
        \cup {[a |-> FALSE, href |-> <<>>, text |-> None]}

\* the manga pages: the chapter nodes in document order, newest first
MangaPages == UNION {[1..n -> ChapterNodes] : n \in 0..MaxChapterNodes}

\* nodes[::-1]
Reversed(nodes) == [i \in 1..Len(nodes) |-> nodes[Len(nodes) + 1 - i]]

\* the list comprehension over enumerate(chapter_nodes); css_first("a") is
\* None for a node without <a> and .attrs then raises AttributeError
ChapterList(chapter_nodes) ==
    [raised |-> \E i \in 1..Len(chapter_nodes) : ~chapter_nodes[i].a,
     list |-> [i \in 1..Len(chapter_nodes) |->
                 [order_no |-> i - 1, url |-> chapter_nodes[i].href,
                  title |-> chapter_nodes[i].text]]]

\* MangaDetailsScarper.chapters: the list is built under "if not
\* chapter_nodes", that is for the empty node list only; every other path,
\* the except clause included, ends in return []
MangaChapters(page) ==
    LET chapter_nodes == Reversed(page)
    IN  IF chapter_nodes = <<>> /\ ~ChapterList(chapter_nodes).raised
        THEN ChapterList(chapter_nodes).list
        ELSE <<>>

\* the chapters property is read on a scraper whose page is page
ReadChapters(page) ==
    /\ call' = [fn |-> "chapters", page |-> page, result |-> MangaChapters(page)]
    /\ UNCHANGED <<storevars, pdfvars, http, scraper, savers, catalog>>

\* ------------------------------------------- concurrent save operations
\* the save operations that check for the URL and insert in separate steps
SaveOps == {"save_manga", "save_chapter", "_save_manga_to_db"}

\* the URLs an operation is called with
SaveUrls(op) == IF op = "save_chapter" THEN ChapterUrls ELSE MangaUrls

\* the chapter lists MangaDetailsScarper.details can hold for a manga:
\* the urls of details.chapters, for every page the site can show
DetailsChapters ==
    {[i \in 1..Len(MangaChapters(page)) |-> MangaChapters(page)[i].url] : page \in MangaPages}

\* the elements of a list
Range(list) == {list[i] : i \in 1..Len(list)}

\* the urls of the rows of a table
UrlsOf(rows) == {rows[i].url : i \in 1..Len(rows)}

\* a table without the unique constraint
UniqueViolation_off(rows, urls) == FALSE

\* Column(String, unique=True) on url: an INSERT of a row whose url is in the
\* table fails with IntegrityError
UniqueViolation(rows, urls) == urls \cap UrlsOf(rows) /= {}

\* the operation op starts for url in the free slot w and runs up to its check:
\* session.query(...).filter(url == ...).first()
SaverCheck(w, op, url) ==
    /\ savers[w].pc = "idle"
    /\ LET exists == CASE op = "save_manga" -> url \in UrlsOf(mangas)
                        [] op = "save_chapter" -> url \in UrlsOf(chapters)
                        [] op = "_save_manga_to_db" -> url \in UrlsOf(catalog.manga)
       IN  savers' = [savers EXCEPT ![w] =
               IF op = "save_chapter" /\ mangas = <<>>
               THEN [pc |-> "done", op |-> op, url |-> url, result |-> "not found"]
               ELSE IF exists
               THEN [pc |-> "done", op |-> op, url |-> url, result |-> "exists"]
               ELSE IF op = "save_manga"
               THEN [pc |-> "done", op |-> op, url |-> url, result |-> "raised"]
               ELSE [pc |-> "checked", op |-> op, url |-> url, result |-> "none"]]
    /\ UNCHANGED <<storevars, pdfvars, http, scraper, catalog, call>>

\* POST /chapter/save past its check: scraper.images fetches the page, then
\* Chapter(...) is built with order_no = len(manga.chapters) + 1, which loads
\* the chapters of the manga with a SELECT of its own
SaverScrapeChapter(w) ==
    /\ savers[w].pc = "checked"
    /\ savers[w].op = "save_chapter"
    /\ \E got \in PageFetches(savers[w].url, MaxImages) :
          savers' = [savers EXCEPT ![w] =
              IF got.raises
              THEN [pc |-> "done", op |-> @.op, url |-> @.url, result |-> "raised"]
              ELSE [pc |-> "counted", op |-> @.op, url |-> @.url, result |-> "none",
                    page |-> got.page, order_no |-> ChapterCount(chapters, 1) + 1]]
    /\ UNCHANGED <<storevars, pdfvars, http, scraper, catalog, call>>

\* POST /chapter/save behind Chapter(...): session.add, flush, add the image
\* rows, commit; any exception is answered with 500 after a rollback
SaverInsertChapter(w) ==
    /\ savers[w].pc = "counted"
    /\ IF UniqueViolation(chapters, {savers[w].url})
       THEN /\ savers' = [savers EXCEPT ![w] =
                   [pc |-> "done", op |-> @.op, url |-> @.url, result |-> "IntegrityError"]]
            /\ UNCHANGED <<chapters, images, tasks>>
       ELSE /\ Len(images) + Len(savers[w].page) <= MaxRows
            /\ chapters' = Append(chapters,
                   NewChapter(1, savers[w].url, savers[w].url[Len(savers[w].url)],
                              savers[w].order_no))
            /\ images' = images \o ApiImageRows(Len(chapters) + 1, ScraperImages(savers[w].page))
            /\ tasks' = tasks \cup {Len(chapters) + 1}
            /\ savers' = [savers EXCEPT ![w] =
                   [pc |-> "done", op |-> @.op, url |-> @.url, result |-> "saved"]]
    /\ UNCHANGED <<mangas, resp, pdfvars, http, scraper, catalog, call>>

\* what MangaDetailsScarper(manga_url).details and float(details.rate) give
\* _save_manga_to_db: an exception, or the genres and the chapter urls
SerieDetails ==
    {[raised |-> TRUE, genres |-> <<>>, chapters |-> <<>>]}
        \cup {[raised |-> FALSE, genres |-> g, chapters |-> c] :
                  g \in {<<>>, <<"g1">>}, c \in DetailsChapters}

\* a transaction that commits the manga and chapter rows without the genres
SerieCommit_no_genres(cat, url, details) ==
    IF \/ UniqueViolation(cat.manga, {url})
       \/ UniqueViolation(cat.chapter, Range(details.chapters))
    THEN [ok |-> FALSE, catalog |-> cat]
    ELSE [ok |-> TRUE,
          catalog |-> [manga |-> Append(cat.manga, [url |-> url]),
                       genre |-> cat.genre,
                       chapter |-> cat.chapter \o
                           [i \in 1..Len(details.chapters) |->
                               [url |-> details.chapters[i], manga_id |-> Len(cat.manga) + 1]]]]

\* the transaction of _save_manga_to_db: add the manga, flush, add the genres
\* and the chapters, commit. An INSERT that breaks a unique constraint raises
\* IntegrityError and session.rollback() undoes the whole transaction
SerieCommit(cat, url, details) ==
    IF \/ UniqueViolation(cat.manga, {url})
       \/ UniqueViolation(cat.chapter, Range(details.chapters))
    THEN [ok |-> FALSE, catalog |-> cat]
    ELSE [ok |-> TRUE,
          catalog |-> [manga |-> Append(cat.manga, [url |-> url]),
                       genre |-> cat.genre \o
                           [i \in 1..Len(details.genres) |->
                               [name |-> details.genres[i], manga_id |-> Len(cat.manga) + 1]],
                       chapter |-> cat.chapter \o
                           [i \in 1..Len(details.chapters) |->
                               [url |-> details.chapters[i], manga_id |-> Len(cat.manga) + 1]]]]

\* SerieScraper._save_manga_to_db past its check: scrape the details and run
\* the transaction; result "saved" is the return value True, every other
\* result is False
SaverInsertSerie(w, details) ==
    /\ savers[w].pc = "checked"
    /\ savers[w].op = "_save_manga_to_db"
    /\ LET done == SerieCommit(catalog, savers[w].url, details)
       IN  IF details.raised
           THEN /\ savers' = [savers EXCEPT ![w] =
                       [pc |-> "done", op |-> @.op, url |-> @.url, result |-> "raised",
                        details |-> details]]
                /\ UNCHANGED catalog
           ELSE /\ savers' = [savers EXCEPT ![w] =
                       [pc |-> "done", op |-> @.op, url |-> @.url,
                        result |-> IF done.ok THEN "saved" ELSE "IntegrityError",
                        details |-> details]]
                /\ catalog' = done.catalog
    /\ UNCHANGED <<storevars, pdfvars, http, scraper, call>>

\* ---------------------------------------------------------- tools.py
\* a str is the sequence of its characters; the characters URLs are made of
\* here: a letter, the dot, the slash and the question mark
Chars == {"a", ".", "/", "?"}

\* the strings of at most n characters
Strings(n) == UNION {[1..k -> Chars] : k \in 0..n}

\* the positions of the character c in s
IndexesOf(s, c) == {i \in 1..Len(s) : s[i] = c}

\* s.split(c)[-1]: the text behind the last c, all of s when c is not in it
SplitLast(s, c) ==
    IF IndexesOf(s, c) = {} THEN s
    ELSE LET last == CHOOSE i \in IndexesOf(s, c) : \A j \in IndexesOf(s, c) : j <= i
         IN  SubSeq(s, last + 1, Len(s))

\* s.endswith(c)
EndsWith(s, c) == Len(s) > 0 /\ s[Len(s)] = c

\* tools.get_extension(url)
get_extension(url) ==
    LET extension == SplitLast(url, ".")
    IN  IF EndsWith(extension, "/") THEN SubSeq(extension, 1, Len(extension) - 1) ELSE extension

\* get_extension is called with url
CallGetExtension(url) ==
    /\ call' = [fn |-> "get_extension", url |-> url, result |-> get_extension(url)]
    /\ UNCHANGED <<storevars, pdfvars, http, scraper, savers, catalog>>

\* ------------------------------------------------ scraper.py: page counts
\* MAX_RESULTS_PER_PAGE of SearchResultsScraper and of SerieScraper
MAX_RESULTS_PER_PAGE == 12

\* the page count both scrapers compute from the result count
TotalPages(result_no) == result_no \div MAX_RESULTS_PER_PAGE + 1

\* SearchResultsScraper.post_result_nodes when the first page reports result_no
\* results: page 1 is fetched, then range(2, pages + 1)
PostResultNodes(result_no) ==
    /\ call' = [fn |-> "post_result_nodes", result_no |-> result_no,
                pages |-> TotalPages(result_no),
                fetched |-> {1} \cup 2..TotalPages(result_no)]
    /\ UNCHANGED <<storevars, pdfvars, http, scraper, savers, catalog>>

\* SerieScraper.start when the first page reports result_no series:
\* get_total_pages fetches page 1, then get_links runs for range(1, total_pages + 1)
SerieStart(result_no) ==
    /\ call' = [fn |-> "start", result_no |-> result_no,
                pages |-> TotalPages(result_no),
                fetched |-> 1..TotalPages(result_no)]
    /\ UNCHANGED <<storevars, pdfvars, http, scraper, savers, catalog>>

\* ------------------------------------------------------ specification
\* init_db() on an empty database file
Init ==
    /\ mangas = <<>>
    /\ chapters = <<>>
    /\ images = <<>>
    /\ tasks = {}
    /\ resp = [op |-> "init_db"]
    /\ pc = "idle"
    /\ futures = <<>>
    /\ yielded = {}
    /\ tmp_files = <<>>
    /\ disk = {}
    /\ out_file = [exists |-> FALSE, pages |-> <<>>]
    /\ exc = FALSE
    /\ http = [pc |-> "idle"]
    /\ scraper = [cached |-> FALSE]
    /\ savers = [w \in 1..MaxSavers |-> [pc |-> "idle"]]
    /\ catalog = [manga |-> <<>>, genre |-> <<>>, chapter |-> <<>>]
    /\ call = [fn |-> "none"]

ChapterIds == 1..(Cardinality(ChapterUrls) + 1)

Next ==
    \/ \E url \in MangaUrls : SaveManga(url, SiteTitle)
    \/ \E url \in MangaUrls : DbSaveManga(url, SiteTitle)
    \/ \E manga_id \in 1..(Cardinality(MangaUrls) + 1), url \in ChapterUrls :
          SaveChapter(manga_id, url)
    \/ \E chapter_id \in ChapterIds : Retrigger(chapter_id)
    \/ \E chapter_id \in ChapterIds : GetChapterStatus(chapter_id)
    \/ \E chapter_id \in ChapterIds : GetChapterPdf(chapter_id)
    \/ \E url \in ChapterUrls : DownloadChapter(url)
    \/ \E url \in ChapterUrls, order_no \in 0..MaxImages : UpdateImageDownloadStatus(url, order_no)
    \/ \E image \in 1..Len(images), payload \in ImagePayloads : SetImageFromBytes(image, payload)

Spec == Init /\ [][Next]_vars

\* the API process: the handlers, the background tasks POST /chapter/save
\* schedules and callers of download_chapter_images, on a database whose manga
\* rows come from Database.save_manga
NextApi ==
    \/ \E url \in MangaUrls : DbSaveManga(url, SiteTitle)
    \/ \E url \in MangaUrls : SaveManga(url, SiteTitle)
    \/ \E manga_id \in 1..(Cardinality(MangaUrls) + 1), url \in ChapterUrls :
          SaveChapter(manga_id, url)
    \/ \E chapter_id \in ChapterIds : RunBackgroundTask(chapter_id)
    \/ \E chapter_id \in ChapterIds : Retrigger(chapter_id)
    \/ \E chapter_id \in ChapterIds : GetChapterStatus(chapter_id)
    \/ \E chapter_id \in ChapterIds : GetChapterPdf(chapter_id)
    \/ \E manga_id \in 1..(Cardinality(MangaUrls) + 1) : GetManga(manga_id)

SpecApi == Init /\ [][NextApi]_vars

\* the API in front of a site whose image URLs all answer with their image.
\* Starlette runs a scheduled background task once the response is sent, so
\* a task that is scheduled does run: weak fairness for each task
NextLive ==
    \/ \E url \in MangaUrls : DbSaveManga(url, SiteTitle)
    \/ \E manga_id \in 1..(Cardinality(MangaUrls) + 1), url \in ChapterUrls :
          SaveChapter(manga_id, url)
    \/ \E chapter_id \in ChapterIds : RunBackgroundTaskOk(chapter_id)
    \/ \E chapter_id \in ChapterIds : GetChapterStatus(chapter_id)

SpecLive ==
    /\ Init
    /\ [][NextLive]_vars
    /\ \A chapter_id \in ChapterIds : WF_vars(RunBackgroundTaskOk(chapter_id))

\* PDF generation over rows that hold any bytes a download can have stored
NextGen ==
    \/ \E url \in MangaUrls : DbSaveManga(url, SiteTitle)
    \/ \E manga_id \in 1..Cardinality(MangaUrls), url \in ChapterUrls :
          SaveChapter(manga_id, url)
    \/ \E image \in 1..Len(images), payload \in ImagePayloads \cup OpaquePayloads :
          SetImageFromBytes(image, payload)
    \/ \E chapter_id \in ChapterIds : GetChapterPdf(chapter_id)

SpecGen == Init /\ [][NextGen]_vars

\* the save operations while the site's pages change between the calls
NextSave ==
    \/ \E url \in MangaUrls, title \in Titles : DbSaveManga(url, title)
    \/ \E url \in MangaUrls, title \in Titles : SaveManga(url, title)
    \/ \E manga_url \in MangaUrls, url \in ChapterUrls, title \in Titles, order_no \in 1..2 :
          DbSaveChapter(manga_url, url, title, order_no)
    \/ \E manga_id \in 1..Cardinality(MangaUrls), url \in ChapterUrls :
          SaveChapter(manga_id, url)
    \/ \E url \in ChapterUrls : DownloadChapter(url)

SpecSave == Init /\ [][NextSave]_vars

\* MangaDownloader at work, with a caller that flags image rows
NextDownloader ==
    \/ \E url \in MangaUrls : DbSaveManga(url, SiteTitle)
    \/ \E manga_url \in MangaUrls, url \in ChapterUrls :
          DbSaveChapter(manga_url, url, SiteTitle, 1)
    \/ \E url \in ChapterUrls, order_no \in 0..1 : UpdateImageDownloadStatus(url, order_no)
    \/ \E url \in ChapterUrls : DownloadChapterPdf(url)

SpecDownloader == Init /\ [][NextDownloader]_vars

\* save operations that run at the same time, on a database whose manga rows
\* come from Database.save_manga
NextRace ==
    \/ \E url \in MangaUrls : DbSaveManga(url, SiteTitle)
    \/ \E w \in 1..MaxSavers, op \in SaveOps : \E url \in SaveUrls(op) : SaverCheck(w, op, url)
    \/ \E w \in 1..MaxSavers : SaverScrapeChapter(w)
    \/ \E w \in 1..MaxSavers : SaverInsertChapter(w)
    \/ \E w \in 1..MaxSavers, details \in SerieDetails : SaverInsertSerie(w, details)

SpecRace == Init /\ [][NextRace]_vars

\* calls of tools.get_extension with every short URL
NextTools == \E url \in Strings(MaxUrlLen) : CallGetExtension(url)

SpecTools == Init /\ [][NextTools]_vars

\* reads of MangaDetailsScarper.chapters on every manga page
NextDetails == \E page \in MangaPages : ReadChapters(page)

SpecDetails == Init /\ [][NextDetails]_vars

\* the searches and the series listing, for every result count the site reports
NextPages ==
    \/ \E result_no \in 0..MaxResults : PostResultNodes(result_no)
    \/ \E result_no \in 0..MaxResults : SerieStart(result_no)

SpecPages == Init /\ [][NextPages]_vars

\* calls on the shared session, one at a time
NextHttp ==
    \/ \E method \in Methods : SessionRequest(method)
    \/ \E reply \in Replies : SessionSend(reply)

SpecHttp == Init /\ [][NextHttp]_vars

\* what get_html gives the images property: it raises or returns a document
DocumentFetches ==
    {[raises |-> TRUE, tree |-> <<>>]} \cup {[raises |-> FALSE, tree |-> d] : d \in Documents}

\* ChapterImagesScraper objects and reads of their images property
NextScrape ==
    \/ NewScraper
    \/ \E got \in DocumentFetches : ReadImages(got)

SpecScrape == Init /\ [][NextScrape]_vars

\* one call of ChapterImagesScraper.download_images_as_pdf and its pool threads
NextPdf ==
    \/ \E url \in ChapterUrls : \E got \in PageFetches(url, MaxPdfImages) : PdfStart(got)
    \/ \E i \in 1..MaxPdfImages : WorkerStart(i)
    \/ \E i \in 1..MaxPdfImages : WorkerDone(i)
    \/ \E i \in 1..MaxPdfImages, created \in BOOLEAN : WorkerFail(i, created)
    \/ \E i \in 1..MaxPdfImages : Collect(i)
    \/ CollectEnd
    \/ ShutdownWait
    \/ \E converts \in BOOLEAN : WritePdf(converts)
    \/ Finally

SpecPdf == Init /\ [][NextPdf]_vars

\* ------------------------------------------------------------ properties
\* the image rows of a chapter, as a set of row ids
RowsOf(cid) == {i \in 1..Len(images) : images[i].chapter_id = cid}

\* C1: once download_images_as_pdf has returned or raised, no temporary file
\* created by its transfers is left on disk
C1_NoTempFileLeft == pc \in {"returned", "raised"} => disk = {}

\* C2: the pages of the PDF download_images_as_pdf writes are in ascending
\* order_no of the chapter's images, whatever order the transfers completed in
C2_PagesInOrderNo ==
    pc = "returned" => out_file.pages = [j \in 1..Len(futures) |-> j - 1]

\* C3: get_chapter_status reports total_images = N, downloaded_images = K,
\* is_complete = (K = N) and progress = K/N*100, progress 0 when N = 0
C3_ChapterStatus ==
    (resp.op = "get_chapter_status" /\ resp.status = 200) =>
        LET N == Cardinality(RowsOf(resp.chapter_id))
            K == Cardinality({i \in RowsOf(resp.chapter_id) : images[i].is_downloaded /= 0})
        IN  /\ resp.body.total_images = N
            /\ resp.body.downloaded_images = K
            /\ resp.body.is_complete = (K = N)
            /\ IF N = 0
               THEN resp.body.progress = <<0, 1>>
               ELSE /\ resp.body.progress[2] > 0
                    /\ resp.body.progress[1] * N = K * 100 * resp.body.progress[2]

\* a status response for a chapter that is partly downloaded
C3_Witness ==
    /\ resp.op = "get_chapter_status"
    /\ resp.status = 200
    /\ resp.body.downloaded_images >= 1
    /\ resp.body.downloaded_images < resp.body.total_images

\* C4: an image row whose is_downloaded is set keeps it set in every step
C4_DownloadedIsOneWay ==
    [][\A i \in 1..Len(images) :
          images[i].is_downloaded /= 0 =>
              (i <= Len(images') /\ images'[i].is_downloaded /= 0)]_vars

\* a re-scrape through Database.save_chapter_images has just written the row
\* with order_no 0 of its chapter again, and that row is downloaded
C4_Witness ==
    /\ resp.op = "download_chapter"
    /\ resp.result
    /\ resp.saved >= 1
    /\ \E i \in 1..Len(images) :
          /\ chapters[images[i].chapter_id].url = resp.url
          /\ images[i].order_no = 0
          /\ images[i].is_downloaded /= 0
          /\ Truthy(images[i].image_data)

\* C5: in a pass of download_chapter_images exactly the not-downloaded rows of
\* the chapter are fetched; a row whose fetch fails stays not-downloaded with
\* no bytes, the other fetched rows are stored, downloaded rows are untouched
C5_FailedFetchStaysPending ==
    [][(resp'.op = "download_chapter_images" /\ resp'.found) =>
          LET pending == {i \in RowsOf(resp'.chapter_id) : images[i].is_downloaded = 0}
          IN  /\ resp'.attempted = pending
              /\ resp'.failed \subseteq pending
              /\ Len(images') = Len(images)
              /\ \A i \in resp'.failed :
                    images'[i].is_downloaded = 0 /\ images'[i].image_data = None
              /\ \A i \in pending \ resp'.failed :
                    \/ images'[i] = images[i]
                    \/ /\ images'[i].is_downloaded = 1
                       /\ Truthy(images'[i].image_data)
                       /\ Truthy(images'[i].mime_type)
              /\ \A i \in (1..Len(images)) \ pending : images'[i] = images[i]]_vars

\* a pass in which a fetch failed and a row behind it was fetched and stored
C5_Witness ==
    /\ resp.op = "download_chapter_images"
    /\ resp.found
    /\ \E i \in resp.failed, j \in resp.attempted :
          i < j /\ images[j].is_downloaded = 1 /\ Truthy(images[j].image_data)

\* C6: set_image_from_bytes stores the bytes and MIME type in the row and adds
\* no row; applied to a row that already holds them it changes nothing
C6_SetImageIdempotent ==
    [][resp'.op = "set_image_from_bytes" =>
          LET i == resp'.image
              p == resp'.payload
          IN  /\ Len(images') = Len(images)
              /\ images'[i].image_data = p[1]
              /\ images'[i].mime_type = p[2]
              /\ images'[i].is_downloaded = 1
              /\ \A j \in (1..Len(images)) \ {i} : images'[j] = images[j]
              /\ (/\ images[i].image_data = p[1]
                  /\ images[i].mime_type = p[2]
                  /\ images[i].is_downloaded = 1) => images' = images]_vars

\* set_image_from_bytes ran on a row that already held the same bytes
C6_Witness ==
    /\ resp.op = "set_image_from_bytes"
    /\ resp.held
    /\ Len(images) >= 2

\* C7: an image row whose is_downloaded flag is set holds non-empty image_data
C7_DownloadedHasBytes ==
    \A i \in 1..Len(images) : images[i].is_downloaded /= 0 => Truthy(images[i].image_data)

\* C8: when the transfer of an image failed, download_images_as_pdf raises and
\* out_path is not written; out_path is written only when all transfers succeeded
C8_FailureAbortsPdf ==
    /\ (\E i \in 1..Len(futures) : futures[i] = "failed") =>
           /\ ~out_file.exists
           /\ pc \notin {"writing", "returned"}
    /\ out_file.exists => \A i \in 1..Len(futures) : futures[i] = "done"

\* the call raised after one transfer failed and another succeeded
C8_Witness ==
    /\ pc = "raised"
    /\ \E i, j \in 1..Len(futures) : futures[i] = "failed" /\ futures[j] = "done"
    /\ ~out_file.exists

\* the number of pages of a PDF byte string
PageCount(content) == IF content = <<>> THEN 0 ELSE Len(content) - 1

\* C9: a successful GET /chapter/{chapter_id}/pdf holds one page for every
\* image row of the chapter
C9_NoPartialPdf ==
    (resp.op = "get_chapter_pdf" /\ resp.status = 200) =>
        PageCount(resp.content) = Cardinality(RowsOf(resp.chapter_id))

\* C10: the pages of generate_pdf are the stored images in ascending order_no:
\* the image with m stored images of smaller order_no is page m + 1
C10_PdfInOrderNo ==
    (resp.op = "get_chapter_pdf" /\ resp.status = 200) =>
        LET stored == {i \in RowsOf(resp.chapter_id) : Truthy(images[i].image_data)}
            Rank(i) == Cardinality({j \in stored : images[j].order_no < images[i].order_no})
        IN  /\ PageCount(resp.content) = Cardinality(stored)
            /\ \A i \in stored : resp.content[Rank(i) + 2] = Jpeg(images[i].image_data)

\* a PDF of two different images whose rows were inserted against their order_no
C10_Witness ==
    /\ resp.op = "get_chapter_pdf"
    /\ resp.status = 200
    /\ \E i, j \in RowsOf(resp.chapter_id) :
          /\ i < j
          /\ images[i].order_no > images[j].order_no
          /\ Truthy(images[i].image_data)
          /\ Truthy(images[j].image_data)
          /\ images[i].image_data /= images[j].image_data

\* C11: a GET /chapter/{chapter_id}/pdf of a stored chapter does not raise; its
\* body is empty when no image row of the chapter holds bytes and non-empty
\* when at least one does
C11_PdfEmptyIffNoBytes ==
    (resp.op = "get_chapter_pdf" /\ resp.chapter_id \in 1..Len(chapters)) =>
        /\ resp.status = 200
        /\ (resp.content = <<>>) <=>
               ~\E i \in RowsOf(resp.chapter_id) : Truthy(images[i].image_data)

\* C12: a call on the shared session sends at most 3 requests
C12_AtMostThreeRequests ==
    http.pc /= "idle" => Len(http.log) <= 3

\* C13: a request is sent again only after a response with status 500, 502 or
\* 504 and only when its method is idempotent (not POST)
C13_ResendOnlyIdempotent ==
    http.pc /= "idle" =>
        \A n \in 1..Len(http.log) :
            (n < Len(http.log) /\ http.log[n].status /= 0) =>
                /\ http.log[n].status \in {500, 502, 504}
                /\ http.method /= "POST"

Matched(tree) == {k \in 1..Len(tree) : tree[k].class}

\* C15: a read of images that fetched a page with n matching nodes gives the
\* n pairs (i, src of the i-th matching node, surrounding whitespace removed),
\* i from 0 in document order, and raises nothing; a later read of the same
\* object gives the same sequence
C15_ImagesNumberedFromZero ==
    [][resp'.op = "images" =>
          /\ (resp'.fetched /\ ~resp'.got.raises) =>
                LET tree == resp'.got.tree
                    Rank(k) == Cardinality({j \in Matched(tree) : j < k})
                IN  /\ ~resp'.raised
                    /\ Len(resp'.result) = Cardinality(Matched(tree))
                    /\ \A k \in Matched(tree) :
                          /\ resp'.result[Rank(k) + 1].order_no = Rank(k)
                          /\ resp'.result[Rank(k) + 1].url = Strip(tree[k].src)
          /\ (resp.op = "images" /\ ~resp.raised) => resp'.result = resp.result]_vars

\* C16: the order_no values of the image rows of every chapter are pairwise
\* distinct and form a run without gaps that starts at 0 or at 1
C16_OrderNoDense ==
    \A cid \in 1..Len(chapters) :
        LET nos == {images[i].order_no : i \in RowsOf(cid)}
        IN  /\ Cardinality(nos) = Cardinality(RowsOf(cid))
            /\ nos /= {} =>
                   \E lo \in {0, 1} : nos = lo..(lo + Cardinality(nos) - 1)

\* a chapter saved through the API with one image was scraped again through
\* Database.save_chapter_images with two
C16_Witness ==
    /\ resp.op = "download_chapter"
    /\ resp.result
    /\ resp.saved = 2
    /\ \E i, j \in 1..Len(images) :
          /\ i < j
          /\ images[i].chapter_id = images[j].chapter_id
          /\ chapters[images[i].chapter_id].url = resp.url
          /\ images[i].order_no = 1
          /\ images[j].order_no = 0

\* C17: every save is an upsert keyed by URL: after Database.save_manga,
\* Database.save_chapter, Database.save_chapter_images or POST /manga/save ran
\* for a URL, the store holds one row for the URL (one row per order_no for
\* images) with the values of this invocation, and an invocation for a stored
\* URL adds no row
C17_SaveIsUpsert ==
    [][/\ resp'.op \in {"Database.save_manga", "save_manga"} =>
             /\ \E i \in 1..Len(mangas') :
                   /\ mangas'[i].url = resp'.url
                   /\ mangas'[i].title = resp'.title
                   /\ \A j \in 1..Len(mangas') : mangas'[j].url = resp'.url => j = i
             /\ (\E i \in 1..Len(mangas) : mangas[i].url = resp'.url) =>
                   Len(mangas') = Len(mangas)
       /\ (resp'.op = "Database.save_chapter" /\ resp'.result) =>
             /\ \E i \in 1..Len(chapters') :
                   /\ chapters'[i].url = resp'.url
                   /\ chapters'[i].title = resp'.title
                   /\ chapters'[i].order_no = resp'.order_no
                   /\ \A j \in 1..Len(chapters') : chapters'[j].url = resp'.url => j = i
             /\ (\E i \in 1..Len(chapters) : chapters[i].url = resp'.url) =>
                   Len(chapters') = Len(chapters)
       /\ (resp'.op = "download_chapter" /\ resp'.result) =>
             LET cid == CHOOSE c \in 1..Len(chapters) : chapters[c].url = resp'.url
                 Rows(imgs, n) == {i \in 1..Len(imgs) : imgs[i].chapter_id = cid /\ imgs[i].order_no = n}
             IN  /\ \A n \in 0..(resp'.saved - 1) :
                       /\ Cardinality(Rows(images', n)) = 1
                       /\ \A i \in Rows(images', n) : images'[i].url = Src(resp'.url, n + 1)
                 /\ (\A n \in 0..(resp'.saved - 1) : Rows(images, n) /= {}) =>
                       Len(images') = Len(images)]_vars

\* C19: no table holds two manga rows with the same URL or two chapter rows
\* with the same URL, however the save operations interleave
C19_UrlsUnique ==
    /\ \A i, j \in 1..Len(mangas) : mangas[i].url = mangas[j].url => i = j
    /\ \A i, j \in 1..Len(chapters) : chapters[i].url = chapters[j].url => i = j
    /\ \A i, j \in 1..Len(catalog.manga) : catalog.manga[i].url = catalog.manga[j].url => i = j
    /\ \A i, j \in 1..Len(catalog.chapter) :
          catalog.chapter[i].url = catalog.chapter[j].url => i = j

\* two saves of the same URL both passed the check; one stored the row and the
\* other was stopped by the unique constraint
C19_Witness ==
    \E v, w \in 1..MaxSavers :
        /\ savers[v].pc = "done" /\ savers[w].pc = "done"
        /\ savers[v].op = savers[w].op
        /\ savers[v].url = savers[w].url
        /\ savers[v].result = "saved"
        /\ savers[w].result = "IntegrityError"

C20_SecondSaveSucceeds ==
    [][(/\ resp'.op = "save_chapter"
        /\ resp'.status /= 404
        /\ \E i \in 1..Len(chapters) : "body" \in DOMAIN resp' /\ resp'.body.chapter_id = i) =>
          /\ resp'.status = 200
          /\ ChapterResponseFields \subseteq DOMAIN resp'.body
          /\ chapters' = chapters
          /\ images' = images
          /\ tasks' = tasks]_vars

\* the URL without its query string
WithoutQuery(url) ==
    IF IndexesOf(url, "?") = {} THEN url
    ELSE SubSeq(url, 1, (CHOOSE i \in IndexesOf(url, "?") : \A j \in IndexesOf(url, "?") : i <= j) - 1)

\* the final path segment of the URL: what follows its last slash
FinalSegment(url) == SplitLast(WithoutQuery(url), "/")

\* C23: get_extension returns the empty string for a URL whose final path
\* segment has no dot
C23_NoDotNoExtension ==
    (call.fn = "get_extension" /\ IndexesOf(FinalSegment(call.url), ".") = {}) =>
        call.result = <<>>

\* C24: for a URL whose final path segment has a dot, get_extension returns
\* the text of the segment behind its first dot, without the query string
C24_ExtensionAfterFirstDot ==
    (call.fn = "get_extension" /\ IndexesOf(FinalSegment(call.url), ".") /= {}) =>
        LET seg == FinalSegment(call.url)
            first == CHOOSE i \in IndexesOf(seg, ".") : \A j \in IndexesOf(seg, ".") : i <= j
        IN  call.result = SubSeq(seg, first + 1, Len(seg))

\* C30: for R >= 1 results the scraper counts ceil(R / 12) pages and fetches
\* exactly the pages 1..ceil(R / 12)
C30_PageCountIsCeiling ==
    (call.fn \in {"post_result_nodes", "start"} /\ call.result_no >= 1) =>
        LET ceil == (call.result_no + MAX_RESULTS_PER_PAGE - 1) \div MAX_RESULTS_PER_PAGE
        IN  call.pages = ceil /\ call.fetched = 1..ceil

\* C25: chapters holds one entry per chapter node of the page, oldest first
\* (the reverse of document order), numbered from 0, with the node's URL and
\* title
C25_ChaptersOldestFirst ==
    (call.fn = "chapters" /\ \A i \in 1..Len(call.page) : call.page[i].a) =>
        LET n == Len(call.page)
        IN  call.result = [i \in 1..n |->
                [order_no |-> i - 1, url |-> call.page[n + 1 - i].href,
                 title |-> call.page[n + 1 - i].text]]

\* C22: a download_chapter(download_images=True) whose PDF download raised
\* returns False, leaves a row for every scraped image, flags no image and
\* does not touch the chapter; pdf_path and is_downloaded of a chapter change
\* only in a call that wrote the PDF
C22_NoFlagWithoutPdf ==
    [][/\ (resp'.op = "download_chapter" /\ resp'.pdf = "raised") =>
             LET chapter == First({i \in 1..Len(chapters) : chapters[i].url = resp'.url})
             IN  /\ resp'.result = FALSE
                 /\ chapters' = chapters
                 /\ \A n \in 0..(resp'.saved - 1) :
                       \E i \in 1..Len(images') :
                           images'[i].chapter_id = chapter /\ images'[i].order_no = n
                 /\ \A i \in 1..Len(images') :
                       images'[i].is_downloaded =
                           IF i \in 1..Len(images) THEN images[i].is_downloaded ELSE 0
       /\ (\E c \in 1..Len(chapters) : \/ chapters'[c].is_downloaded /= chapters[c].is_downloaded
                                         \/ chapters'[c].pdf_path /= chapters[c].pdf_path)
             => (resp'.op = "download_chapter" /\ resp'.pdf = "written")]_vars

\* the PDF download of a chapter with two scraped images has just failed: the
\* two rows are stored, unflagged, and the chapter is not flagged
C22_Witness ==
    /\ resp.op = "download_chapter"
    /\ resp.pdf = "raised"
    /\ resp.saved = 2
    /\ \E c \in 1..Len(chapters) :
          /\ chapters[c].url = resp.url
          /\ chapters[c].is_downloaded = 0
          /\ chapters[c].pdf_path = None
          /\ Cardinality({i \in 1..Len(images) : /\ images[i].chapter_id = c
                                                   /\ images[i].is_downloaded = 0}) = 2

\* C26: GET /manga/{manga_id} for an id that is not stored answers 404 with
\* the detail "Manga not found"
C26_MissingMangaIs404 ==
    (resp.op = "get_manga" /\ resp.manga_id \notin 1..Len(mangas)) =>
        (resp.status = 404 /\ resp.detail = <<"Manga not found">>)

\* the order_no GET /chapter/images reports for the image url of the chapter
\* page curl: the extractor's list is ScraperImages of the page
ExtractorOrderNo(curl, url) ==
    LET page == CHOOSE pg \in SitePages(curl, MaxImages) : \E k \in 1..Len(pg) : pg[k] = url
        k == CHOOSE j \in 1..Len(page) : page[j] = url
    IN  ScraperImages(page)[k].order_no

\* C27: every image row a successful POST /chapter/save adds carries the
\* order_no the extractor reports for the same image
C27_OrderNoMatchesExtractor ==
    [][(resp'.op = "save_chapter" /\ resp'.status = 200) =>
          \A i \in (Len(images) + 1)..Len(images') :
              images'[i].order_no =
                  ExtractorOrderNo(chapters'[images'[i].chapter_id].url, images'[i].url)]_vars

\* C28: a _save_manga_to_db call that returns True has added the manga row,
\* one genre row per genre and one chapter row per chapter of the details and
\* nothing else; a call that returns False has added no row
C28_AllOrNothing ==
    [][\A w \in 1..MaxSavers :
          (/\ savers[w].pc /= "done"
           /\ savers'[w].pc = "done"
           /\ savers'[w].op = "_save_manga_to_db") =>
              IF savers'[w].result = "saved"
              THEN LET id == Len(catalog.manga) + 1
                       details == savers'[w].details
                   IN  /\ catalog'.manga = Append(catalog.manga, [url |-> savers'[w].url])
                       /\ catalog'.genre = catalog.genre \o
                             [i \in 1..Len(details.genres) |->
                                 [name |-> details.genres[i], manga_id |-> id]]
                       /\ catalog'.chapter = catalog.chapter \o
                             [i \in 1..Len(details.chapters) |->
                                 [url |-> details.chapters[i], manga_id |-> id]]
              ELSE catalog' = catalog]_vars

\* a call has returned True for a manga with a genre while another call for
\* the same URL, which had passed the check too, has returned False
C28_Witness ==
    \E v, w \in 1..MaxSavers :
        /\ savers[v].pc = "done" /\ savers[w].pc = "done"
        /\ savers[v].op = "_save_manga_to_db" /\ savers[w].op = "_save_manga_to_db"
        /\ savers[v].result = "saved"
        /\ savers[v].details.genres /= <<>>
        /\ savers[w].result = "IntegrityError"
        /\ Len(catalog.manga) = 1
        /\ Len(catalog.genre) = 1

\* C29: the chapters POST /chapter/save stored for a manga carry pairwise
\* distinct order_no values that form 1..n
C29_ChapterOrderNoDense ==
    \A m \in 1..Len(mangas) :
        LET rows == {c \in 1..Len(chapters) : chapters[c].manga_id = m}
        IN  {chapters[c].order_no : c \in rows} = 1..Cardinality(rows)

\* what GET /chapter/{chapter_id}/status reports is complete: every row of the
\* chapter counted as downloaded, is_complete true and progress 100
Complete(cid) ==
    LET body == ChapterStatus(images, cid)
    IN  /\ body.total_images = Cardinality(RowsOf(cid))
        /\ body.downloaded_images = body.total_images
        /\ body.is_complete
        /\ body.progress[1] = 100 * body.progress[2]

\* C21: once POST /chapter/save has stored a chapter with at least one image
\* and scheduled its download, and every fetch succeeds, the status of the
\* chapter eventually is total = downloaded = N, complete, progress 100, and
\* stays so
C21_EventuallyComplete ==
    \A cid \in ChapterIds :
        (cid \in tasks /\ RowsOf(cid) /= {}) ~> [](cid \notin tasks /\ Complete(cid))

\* the background task of a chapter with two images has run and the status
\* request that followed reported the chapter complete
C21_Witness ==
    /\ resp.op = "get_chapter_status"
    /\ resp.status = 200
    /\ resp.chapter_id \notin tasks
    /\ resp.body.total_images = 2
    /\ resp.body.downloaded_images = 2
    /\ resp.body.is_complete
    /\ resp.body.progress = <<200, 2>>
    /\ \A i \in RowsOf(resp.chapter_id) : Truthy(images[i].image_data)

====
